---- MODULE Spec2Model ----
(***************************************************************************)
(* The shiritori move engine of app/shiritori.py and the request handler   *)
(* ai_move of app/main.py.  A character is its Unicode code point, a       *)
(* string is a sequence of code points, Python's None is the value None    *)
(* (NoneCh for an optional single character).                              *)
(***************************************************************************)
EXTENDS Integers, Sequences, FiniteSets, TLC

\* ------------------------------------------------------------ characters
HIRA_LO == 12353
HIRA_HI == 12438
KATA_LO == 12449
KATA_HI == 12538
PROLONG == 12540
KANA_N == 12435
NEWLINE == 10

None == << -1 >>
NoneCh == -1

\* str.isspace(): the code points Python treats as whitespace
IsSpace(ch) ==
    ch \in ((9..13) \cup (28..32) \cup {133, 160, 5760} \cup (8192..8202)
            \cup {8232, 8233, 8239, 8287, 12288})

\* truthiness of an Optional[str]: None and "" are falsy
Truthy(s) == s # None /\ s # << >>

RECURSIVE LStrip(_)
LStrip(s) == IF s # << >> /\ IsSpace(Head(s)) THEN LStrip(Tail(s)) ELSE s

RECURSIVE RStrip(_)
RStrip(s) ==
    IF s # << >> /\ IsSpace(s[Len(s)]) THEN RStrip(SubSeq(s, 1, Len(s) - 1)) ELSE s

\* str.strip()
Strip(s) == RStrip(LStrip(s))

RECURSIVE TakeToken(_)
TakeToken(s) ==
    IF s = << >> \/ IsSpace(Head(s)) THEN << >> ELSE << Head(s) >> \o TakeToken(Tail(s))

\* str.split()[0] of a string that holds a non-space character
FirstToken(s) == TakeToken(LStrip(s))

\* ------------------------------------------------------------ shiritori.py
_SMALL_TO_LARGE == (12353 :> 12354) @@ (12355 :> 12356) @@ (12357 :> 12358) @@ (12359 :> 12360) @@ (12361 :> 12362) @@ (12387 :> 12388) @@ (12419 :> 12420) @@ (12421 :> 12422) @@ (12423 :> 12424) @@ (12430 :> 12431)

SmallToLarge(ch) == IF ch \in DOMAIN _SMALL_TO_LARGE THEN _SMALL_TO_LARGE[ch] ELSE ch

_KATAKANA_TO_HIRAGANA_OFFSET == HIRA_LO - KATA_LO

InHiraganaRange(ch) == (HIRA_LO <= ch /\ ch <= HIRA_HI) \/ ch = PROLONG

ConvertChar(ch) ==
    IF IsSpace(ch) THEN << >>
    ELSE IF InHiraganaRange(ch) THEN << ch >>
    ELSE IF (KATA_LO <= ch /\ ch <= KATA_HI) \/ ch = PROLONG
         THEN IF ch = PROLONG THEN << ch >>
              ELSE << ch + _KATAKANA_TO_HIRAGANA_OFFSET >>
    ELSE << >>

RECURSIVE ConvertAll(_)
ConvertAll(s) == IF s = << >> THEN << >> ELSE ConvertChar(Head(s)) \o ConvertAll(Tail(s))

to_hiragana(s) == ConvertAll(Strip(s))

AllInRange(s) == \A i \in 1..Len(s) : InHiraganaRange(s[i])

\* re.compile(r"^[ぁ-ゖー]+$").match(s): "$" also matches before a final newline
is_hiragana_only(s) ==
    \/ s # << >> /\ AllInRange(s)
    \/ Len(s) >= 2 /\ s[Len(s)] = NEWLINE /\ AllInRange(SubSeq(s, 1, Len(s) - 1))

strip_trailing_prolong_mark(s) ==
    IF s # << >> /\ s[Len(s)] = PROLONG THEN SubSeq(s, 1, Len(s) - 1) ELSE s

\* the last character returned without the small-to-large table
normalize_last_char_no_map(s) ==
    IF s = << >> THEN NoneCh
    ELSE LET t == strip_trailing_prolong_mark(s)
         IN  IF t = << >> THEN NoneCh ELSE t[Len(t)]

normalize_last_char(s) ==
    IF s = << >> THEN NoneCh
    ELSE LET t == strip_trailing_prolong_mark(s)
         IN  IF t = << >> THEN NoneCh ELSE SmallToLarge(t[Len(t)])

\* the last character tested without dropping a trailing prolongation mark
violates_end_n_no_strip(s) == IF s # << >> THEN s[Len(s)] = KANA_N ELSE FALSE

violates_end_n(s) ==
    LET t == strip_trailing_prolong_mark(s)
    IN  IF t # << >> THEN t[Len(t)] = KANA_N ELSE FALSE

\* validate_user_move with the check of line 94 before the check of line 92
validate_user_move_taboo_first(user_word, expected_head, used_words) ==
    LET w == to_hiragana(user_word)
    IN  IF w = << >> THEN "empty"
        ELSE IF ~is_hiragana_only(w) THEN "not_hiragana"
        ELSE IF violates_end_n(w) THEN "ends_n"
        ELSE IF w \in used_words THEN "repeated"
        ELSE IF expected_head # NoneCh /\ SmallToLarge(w[1]) # expected_head
             THEN "wrong_head"
        ELSE "OK"

\* validate_user_move without the check of line 92
validate_user_move_no_repeat(user_word, expected_head, used_words) ==
    LET w == to_hiragana(user_word)
    IN  IF w = << >> THEN "empty"
        ELSE IF ~is_hiragana_only(w) THEN "not_hiragana"
        ELSE IF violates_end_n(w) THEN "ends_n"
        ELSE IF expected_head # NoneCh /\ SmallToLarge(w[1]) # expected_head
             THEN "wrong_head"
        ELSE "OK"

\* validate_user_move without the check of line 94
validate_user_move_no_taboo(user_word, expected_head, used_words) ==
    LET w == to_hiragana(user_word)
    IN  IF w = << >> THEN "empty"
        ELSE IF ~is_hiragana_only(w) THEN "not_hiragana"
        ELSE IF w \in used_words THEN "repeated"
        ELSE IF expected_head # NoneCh /\ SmallToLarge(w[1]) # expected_head
             THEN "wrong_head"
        ELSE "OK"

\* validate_user_move without the check of line 88
validate_user_move_no_empty(user_word, expected_head, used_words) ==
    LET w == to_hiragana(user_word)
    IN  IF ~is_hiragana_only(w) THEN "not_hiragana"
        ELSE IF w \in used_words THEN "repeated"
        ELSE IF violates_end_n(w) THEN "ends_n"
        ELSE IF expected_head # NoneCh /\ SmallToLarge(w[1]) # expected_head
             THEN "wrong_head"
        ELSE "OK"

\* the message of validate_user_move; "OK" is the accepting result
validate_user_move(user_word, expected_head, used_words) ==
    LET w == to_hiragana(user_word)
    IN  IF w = << >> THEN "empty"
        ELSE IF ~is_hiragana_only(w) THEN "not_hiragana"
        ELSE IF w \in used_words THEN "repeated"
        ELSE IF violates_end_n(w) THEN "ends_n"
        ELSE IF expected_head # NoneCh /\ SmallToLarge(w[1]) # expected_head
             THEN "wrong_head"
        ELSE "OK"

\* validate_ai_move without the check of line 115
validate_ai_move_no_taboo(word, required_head, used_words) ==
    LET w == to_hiragana(word)
    IN  IF w = << >> \/ ~is_hiragana_only(w) THEN "not_hiragana"
        ELSE IF SmallToLarge(w[1]) # required_head THEN "wrong_head"
        ELSE IF w \in used_words THEN "repeated"
        ELSE "OK"

validate_ai_move(word, required_head, used_words) ==
    LET w == to_hiragana(word)
    IN  IF w = << >> \/ ~is_hiragana_only(w) THEN "not_hiragana"
        ELSE IF SmallToLarge(w[1]) # required_head THEN "wrong_head"
        ELSE IF w \in used_words THEN "repeated"
        ELSE IF violates_end_n(w) THEN "ends_n"
        ELSE "OK"

next_required_head(word) == normalize_last_char(word)

\* ------------------------------------------------------------ main.py
MAX_TURNS == 20

FALLBACK_DICT ==
   << <<12354, << <<12354, 12426>>, <<12354, 12417>>, <<12354, 12373>> >> >>,
      <<12356, << <<12356, 12396>>, <<12356, 12369>>, <<12356, 12363>> >> >>,
      <<12358, << <<12358, 12375>>, <<12358, 12415>>, <<12358, 12383>> >> >>,
      <<12360, << <<12360, 12403>>, <<12360, 12365>>, <<12360, 12398, 12368>> >> >>,
      <<12362, << <<12362, 12395>>, <<12362, 12363>>, <<12362, 12422>> >> >>,
      <<12363, << <<12363, 12417>>, <<12363, 12373>>, <<12363, 12425, 12377>> >> >>,
      <<12365, << <<12365, 12388, 12397>>, <<12365, 12398, 12371>>, <<12365, 12426, 12435>> >> >>,
      <<12367, << <<12367, 12414>>, <<12367, 12365>>, <<12367, 12427, 12414>> >> >>,
      <<12369, << <<12369, 12416, 12375>>, <<12369, 12375, 12365>>, <<12369, 12364>> >> >>,
      <<12371, << <<12371, 12392, 12426>>, <<12371, 12417>>, <<12371, 12362, 12426>> >> >>,
      <<12373, << <<12373, 12363, 12394>>, <<12373, 12427>>, <<12373, 12367, 12425>> >> >>,
      <<12375, << <<12375, 12429>>, <<12375, 12362>>, <<12375, 12435, 12406, 12435>> >> >>,
      <<12377, << <<12377, 12356, 12363>>, <<12377, 12378, 12417>>, <<12377, 12394>> >> >>,
      <<12379, << <<12379, 12415>>, <<12379, 12363, 12356>>, <<12379, 12435, 12409, 12356>> >> >>,
      <<12381, << <<12381, 12425>>, <<12381, 12400>>, <<12381, 12426>> >> >>,
      <<12383, << <<12383, 12414, 12372>>, <<12383, 12395>>, <<12383, 12371>> >> >>,
      <<12385, << <<12385, 12378>>, <<12385, 12363, 12425>>, <<12385, 12367, 12431>> >> >>,
      <<12388, << <<12388, 12365>>, <<12388, 12400, 12373>>, <<12388, 12385>> >> >>,
      <<12390, << <<12390, 12364, 12415>>, <<12390, 12406, 12367, 12429>>, <<12390, 12435, 12407, 12425>> >> >>,
      <<12392, << <<12392, 12425>>, <<12392, 12369, 12356>>, <<12392, 12414, 12392>> >> >>,
      <<12394, << <<12394, 12377>>, <<12394, 12409>>, <<12394, 12415>> >> >>,
      <<12395, << <<12395, 12431>>, <<12395, 12367>>, <<12395, 12376>> >> >>,
      <<12396, << <<12396, 12356, 12368, 12427, 12415>>, <<12396, 12398>>, <<12396, 12414>> >> >>,
      <<12397, << <<12397, 12371>>, <<12397, 12366>>, <<12397, 12378, 12415>> >> >>,
      <<12398, << <<12398, 12426>>, <<12398, 12399, 12425>>, <<12398, 12371, 12366, 12426>> >> >>,
      <<12399, << <<12399, 12373, 12415>>, <<12399, 12394>>, <<12399, 12387, 12401>> >> >>,
      <<12402, << <<12402, 12371, 12358, 12365>>, <<12402, 12388, 12376>>, <<12402, 12415, 12388>> >> >>,
      <<12405, << <<12405, 12397>>, <<12405, 12367>>, <<12405, 12392, 12435>> >> >>,
      <<12408, << <<12408, 12403>>, <<12408, 12420>>, <<12408, 12356, 12383, 12356>> >> >>,
      <<12411, << <<12411, 12375>>, <<12411, 12397>>, <<12411, 12383, 12427>> >> >>,
      <<12414, << <<12414, 12367, 12425>>, <<12414, 12417>>, <<12414, 12393>> >> >>,
      <<12415, << <<12415, 12378>>, <<12415, 12363, 12435>>, <<12415, 12385>> >> >>,
      <<12416, << <<12416, 12375>>, <<12416, 12366>>, <<12416, 12397>> >> >>,
      <<12417, << <<12417, 12364, 12397>>, <<12417, 12384, 12363>>, <<12417, 12435, 12383, 12356, 12371>> >> >>,
      <<12418, << <<12418, 12418>>, <<12418, 12426>>, <<12418, 12385>> >> >>,
      <<12420, << <<12420, 12414>>, <<12420, 12373, 12356>>, <<12420, 12366>> >> >>,
      <<12422, << <<12422, 12365>>, <<12422, 12417>>, <<12422, 12403>> >> >>,
      <<12424, << <<12424, 12358, 12405, 12367>>, <<12424, 12427>>, <<12424, 12371>> >> >>,
      <<12425, << <<12425, 12387, 12371>>, <<12425, 12387, 12401>>, <<12425, 12356, 12362, 12435>> >> >>,
      <<12426, << <<12426, 12377>>, <<12426, 12435, 12372>>, <<12426, 12423, 12358, 12426>> >> >>,
      <<12427, << <<12427, 12377>>, <<12427, 12388, 12412>>, <<12427, 12540, 12428, 12387, 12392>> >> >>,
      <<12428, << <<12428, 12356, 12382, 12358, 12371>>, <<12428, 12418, 12435>>, <<12428, 12435, 12371, 12435>> >> >>,
      <<12429, << <<12429, 12358, 12381, 12367>>, <<12429, 12412, 12387, 12392>>, <<12429, 12390, 12435, 12406, 12429>> >> >>,
      <<12431, << <<12431, 12395>>, <<12431, 12372, 12416>>, <<12431, 12383>> >> >> >>

FallbackWords(h) ==
    LET hits == {i \in DOMAIN FALLBACK_DICT : FALLBACK_DICT[i][1] = h}
    IN  IF hits = {} THEN << >> ELSE FALLBACK_DICT[CHOOSE i \in hits : TRUE][2]

\* the turn count rounded down instead of up
_turn_count_floor(h) == Len(h) \div 2

_turn_count_from_history(h) == (Len(h) + 1) \div 2

\* the words _choose_fallback draws from with random.choice
FallbackCandidates(h, used_words) ==
    LET ws == FallbackWords(h)
    IN  {ws[i] : i \in {j \in DOMAIN ws : ws[j] \notin used_words}}

\* what _gemini_generate returns for the text of the service's response;
\* None stands for a response without text and for a raised exception
GeminiCandidate(text) ==
    IF ~Truthy(text) THEN None
    ELSE LET c == Strip(text)
         IN  IF c # << >> THEN Strip(FirstToken(c)) ELSE c

\* ------------------------------------------------------------ inputs
\* raw strings a client or the text service may send (romanised names):
\* "", "a", neko, NEKO (katakana), meron, the prolongation mark alone,
\* katakana VA, maki, mama, two blanks, koma, KOMA (katakana), koma followed
\* by an ideographic full stop, kon, "koma desu"
W_empty == <<>>
W_latin == <<97>>
W_neko == <<12397, 12371>>
W_NEKO == <<12493, 12467>>
W_meron == <<12417, 12429, 12435>>
W_bar == <<12540>>
W_VA == <<12535>>
W_maki == <<12414, 12365>>
W_mama == <<12414, 12414>>
T_blank == <<32, 32>>
T_koma == <<12371, 12414>>
T_KOMA == <<12467, 12510>>
T_koma_dot == <<12371, 12414, 12290>>
T_kon == <<12371, 12435>>
T_koma_desu == <<12371, 12414, 32, 12391, 12377>>
PHeads == << 12354, 12356, 12358, 12360, 12362, 12363, 12365, 12367, 12369, 12371, 12373, 12375, 12377, 12379, 12381, 12383, 12385, 12388, 12390, 12392, 12394, 12395 >>
AHeads == << 12364, 12366, 12368, 12370, 12372, 12374, 12376, 12378, 12380, 12382, 12384, 12386, 12389, 12391, 12393, 12400, 12403, 12406, 12409, 12412, 12401, 12404 >>

\* a scripted game long enough to reach the turn limit: the player's k-th word
\* leads to a head the fallback table has no entry for, the service's k-th
\* word leads back to the player's next head
ChainLen == 20
PlayerChain == {<< PHeads[k], AHeads[k] >> : k \in 1..ChainLen}
TextChain == {<< AHeads[k], PHeads[k + 1] >> : k \in 1..ChainLen}

UserWords ==
    {W_empty, W_latin, W_neko, W_NEKO, W_meron, W_bar, W_VA, W_maki} \cup PlayerChain
Texts ==
    {None, T_blank, T_koma, T_KOMA, T_koma_dot, T_kon, W_neko, T_koma_desu}
        \cup TextChain

\* request histories: a run of the same entry followed by at most one other
MaxPad == 40
PadLens == {0, 1, 2, 19} \cup (38..MaxPad)
Pad(n) == [i \in 1..n |-> W_mama]
Suffixes == {<< >>, << W_neko >>, << W_empty >>, << W_latin >>}
Histories == {Pad(n) \o x : n \in PadLens, x \in Suffixes}

\* requests a client sends after an answer to a history it did not start empty
MaxFollow == 1

\* ------------------------------------------------------------ state
VARIABLES
    req_history,        \* MoveRequest.history
    req_user_word,      \* MoveRequest.user_word
    configured,         \* genai and GEMINI_API_KEY
    pc,                 \* position in ai_move
    history,            \* ai_move's locals
    used,
    user_turns_before,
    w_user,
    head,
    ai_word,
    resp,               \* the MoveResponse, or the raised HTTPException
    primary_calls,      \* calls of _gemini_generate in this request
    fallback_calls,     \* calls of _choose_fallback in this request
    ai_validations,     \* calls of validate_ai_move in this request
    from_empty,         \* the game started from an empty history
    moves,              \* requests of this game answered with a MoveResponse
    follow              \* requests sent after the first one of a game not started empty

vars == << req_history, req_user_word, configured, pc, history, used,
           user_turns_before, w_user, head, ai_word, resp, primary_calls,
           fallback_calls, ai_validations, from_empty, moves, follow >>

NoResp == [kind |-> "none"]

MoveResponse(ok, message, user_word, aiw, next_head, used_words, turns, over, winner) ==
    [kind |-> "outcome", ok |-> ok, message |-> message, user_word |-> user_word,
     ai_word |-> aiw, next_head_for_user |-> next_head, used |-> used_words,
     turn_count |-> turns, game_over |-> over, winner |-> winner]

HTTPException == [kind |-> "error", status_code |-> 400]

\* lines 172-179
LimitResponse(used_words, turns) ==
    MoveResponse(FALSE, "limit_before", None, None, NoneCh, used_words, turns, TRUE,
                 "none")

\* the rejected word put into the used list
UserLostResponse_adds_word(msg, w, used_words, turns) ==
    MoveResponse(FALSE, msg, w, None, NoneCh, used_words \cup {w}, turns + 1, TRUE, "ai")

\* lines 191-199
UserLostResponse(msg, w, used_words, turns) ==
    MoveResponse(FALSE, msg, w, None, NoneCh, used_words, turns + 1, TRUE, "ai")

\* lines 227-235
NoAnswerResponse(w, used_words, turns) ==
    MoveResponse(TRUE, "ai_no_answer", w, None, NoneCh, used_words, turns + 1, TRUE,
                 "user")

\* the rejected word put into the used list
AiBrokeRulesResponse_adds_word(w, aiw, used_words, turns) ==
    MoveResponse(TRUE, "ai_broke_rules", w, aiw, NoneCh, used_words \cup {aiw},
                 turns + 1, TRUE, "user")

\* lines 240-249
AiBrokeRulesResponse(w, aiw, used_words, turns) ==
    MoveResponse(TRUE, "ai_broke_rules", w, aiw, NoneCh, used_words, turns + 1, TRUE,
                 "user")

\* the response without the limit check of lines 259-264
AcceptedResponse_never_over(w, aiw, used_words, turns_after, over) ==
    MoveResponse(TRUE, "next", w, aiw, next_required_head(aiw), used_words,
                 turns_after, FALSE, "absent")

\* lines 256-276, with the AI's word already appended to the history
AcceptedResponse(w, aiw, used_words, turns_after, over) ==
    MoveResponse(TRUE, IF over THEN "limit_after" ELSE "next", w, aiw,
                 next_required_head(aiw), used_words, turns_after, over,
                 IF over THEN "none" ELSE "absent")

\* history = [to_hiragana(w) for w in req.history if w]
NonEmpty(w) == w # << >>
NormalizeHistory(h) ==
    LET kept == SelectSeq(h, NonEmpty)
    IN  [i \in 1..Len(kept) |-> to_hiragana(kept[i])]

SeqSet(h) == {h[i] : i \in DOMAIN h}

ExpectedHead(h) == IF h # << >> THEN next_required_head(h[Len(h)]) ELSE NoneCh

\* the limit compared with > instead of >=
LimitReached_strict(turns) == turns > MAX_TURNS

LimitReached(turns) == turns >= MAX_TURNS

Locals0 ==
    /\ history = << >>
    /\ used = {}
    /\ user_turns_before = 0
    /\ w_user = None
    /\ head = NoneCh
    /\ ai_word = None
    /\ resp = NoResp
    /\ primary_calls = 0
    /\ fallback_calls = 0
    /\ ai_validations = 0

Init ==
    /\ req_history \in Histories
    /\ req_user_word \in UserWords
    /\ configured \in BOOLEAN
    /\ pc = "start"
    /\ Locals0
    /\ from_empty = (req_history = << >>)
    /\ moves = 0
    /\ follow = 0

Game == << from_empty, moves, follow >>
Request == << req_history, req_user_word, configured >>
Counters == << primary_calls, fallback_calls, ai_validations >>

\* lines 166-179: normalise the history, build the used set, check the limit
Start ==
    /\ pc = "start"
    /\ LET h == NormalizeHistory(req_history)
           u == SeqSet(h)
           t == _turn_count_from_history(h)
       IN  /\ history' = h
           /\ used' = u
           /\ user_turns_before' = t
           /\ IF LimitReached(t)
              THEN /\ resp' = LimitResponse(u, t)
                   /\ moves' = moves + 1
                   /\ pc' = "done"
              ELSE /\ UNCHANGED << resp, moves >>
                   /\ pc' = "validate"
    /\ UNCHANGED << Request, w_user, head, ai_word, Counters, from_empty, follow >>

\* lines 181-208: validate the user's word, append it, compute the head for the AI
ValidateUser ==
    /\ pc = "validate"
    /\ LET msg == validate_user_move(req_user_word, ExpectedHead(history), used)
           w == to_hiragana(req_user_word)
       IN  /\ w_user' = w
           /\ IF msg # "OK"
              THEN /\ resp' = UserLostResponse(msg, w, used, user_turns_before)
                   /\ moves' = moves + 1
                   /\ pc' = "done"
                   /\ UNCHANGED << history, used, head >>
              ELSE /\ history' = Append(history, w)
                   /\ used' = used \cup {w}
                   /\ head' = next_required_head(w)
                   /\ IF next_required_head(w) = NoneCh
                      THEN /\ resp' = HTTPException
                           /\ pc' = "done"
                      ELSE /\ resp' = resp
                           /\ pc' = "generate"
                   /\ moves' = moves
    /\ UNCHANGED << Request, user_turns_before, ai_word, Counters, from_empty, follow >>

\* _gemini_generate, lines 132-161: None when the service is not configured,
\* else whatever the service answers
GeminiResults ==
    IF configured THEN {GeminiCandidate(t) : t \in Texts} ELSE {None}

\* line 211
Generate ==
    /\ pc = "generate"
    /\ \E c \in GeminiResults : ai_word' = c
    /\ primary_calls' = primary_calls + 1
    /\ pc' = "check"
    /\ UNCHANGED << Request, history, used, user_turns_before, w_user, head, resp,
                    fallback_calls, ai_validations, Game >>

\* the first result validated, and retried, also when it is None or empty
FirstCheckNeeded_always(c) == TRUE

\* the condition of line 214 under which the first candidate is validated
FirstCheckNeeded(c) == Truthy(c)

\* lines 214-216
Check ==
    /\ pc = "check"
    /\ IF FirstCheckNeeded(ai_word)
       THEN /\ ai_validations' = ai_validations + 1
            /\ pc' = IF validate_ai_move(ai_word, head, used) # "OK"
                     THEN "retry" ELSE "fallback"
       ELSE /\ ai_validations' = ai_validations
            /\ pc' = "fallback"
    /\ UNCHANGED << Request, history, used, user_turns_before, w_user, head, ai_word,
                    resp, primary_calls, fallback_calls, Game >>

\* line 218
Retry ==
    /\ pc = "retry"
    /\ \E c \in GeminiResults : ai_word' = c
    /\ primary_calls' = primary_calls + 1
    /\ pc' = "fallback"
    /\ UNCHANGED << Request, history, used, user_turns_before, w_user, head, resp,
                    fallback_calls, ai_validations, Game >>

\* the fallback table consulted whatever the primary source returned
FallbackNeeded_always(c) == TRUE

\* the condition of line 221 under which the fallback table is consulted
FallbackNeeded(c) == ~Truthy(c)

\* lines 221-222 and _choose_fallback, lines 127-129
Fallback ==
    /\ pc = "fallback"
    /\ IF FallbackNeeded(ai_word)
       THEN /\ fallback_calls' = fallback_calls + 1
            /\ LET cs == FallbackCandidates(head, used)
               IN  IF cs # {} THEN \E c \in cs : ai_word' = c ELSE ai_word' = None
       ELSE UNCHANGED << fallback_calls, ai_word >>
    /\ pc' = "final"
    /\ UNCHANGED << Request, history, used, user_turns_before, w_user, head, resp,
                    primary_calls, ai_validations, Game >>

\* lines 224-276
Finalize ==
    /\ pc = "final"
    /\ IF ~Truthy(ai_word)
       THEN /\ resp' = NoAnswerResponse(w_user, used, user_turns_before)
            /\ UNCHANGED << history, used, ai_validations >>
       ELSE /\ ai_validations' = ai_validations + 1
            /\ IF validate_ai_move(ai_word, head, used) # "OK"
               THEN /\ resp' = AiBrokeRulesResponse(w_user, ai_word, used,
                                                        user_turns_before)
                    /\ UNCHANGED << history, used >>
               ELSE LET h == Append(history, ai_word)
                        u == used \cup {ai_word}
                        t == _turn_count_from_history(h)
                        over == LimitReached(t)
                    IN  /\ history' = h
                        /\ used' = u
                        /\ resp' = AcceptedResponse(w_user, ai_word, u, t, over)
    /\ moves' = moves + 1
    /\ pc' = "done"
    /\ UNCHANGED << Request, user_turns_before, w_user, head, ai_word, primary_calls,
                    fallback_calls, from_empty, follow >>

\* the client's next request: after an ongoing outcome the history extended by
\* the two returned words, after the HTTP error the same history again
Resubmit ==
    /\ pc = "done"
    /\ \/ resp.kind = "error"
       \/ resp.kind = "outcome" /\ ~resp.game_over
    /\ from_empty \/ follow < MaxFollow
    /\ req_history' = IF resp.kind = "error" THEN req_history
                      ELSE req_history \o << resp.user_word, resp.ai_word >>
    /\ \E w \in UserWords : req_user_word' = w
    /\ follow' = IF from_empty THEN follow ELSE follow + 1
    /\ pc' = "start"
    /\ history' = << >>
    /\ used' = {}
    /\ user_turns_before' = 0
    /\ w_user' = None
    /\ head' = NoneCh
    /\ ai_word' = None
    /\ resp' = NoResp
    /\ primary_calls' = 0
    /\ fallback_calls' = 0
    /\ ai_validations' = 0
    /\ UNCHANGED << configured, from_empty, moves >>

Next ==
    \/ Start
    \/ ValidateUser
    \/ Generate
    \/ Check
    \/ Retry
    \/ Fallback
    \/ Finalize
    \/ Resubmit

Spec == Init /\ [][Next]_vars

\* ------------------------------------------------------------ properties
\* the normalized history and candidate, computed from the request alone
H0 == NormalizeHistory(req_history)
Cand == to_hiragana(req_user_word)
TurnsOf(h) == (Len(h) + 1) \div 2
RequiredHeadOf(h) == IF h = << >> THEN NoneCh ELSE normalize_last_char(h[Len(h)])
Done == pc = "done"
Outcome == resp.kind = "outcome"

ScriptPure(w) == \A i \in 1..Len(w) : InHiraganaRange(w[i])

EndsOnTaboo(w) ==
    LET n == Len(w)
    IN  /\ n >= 1
        /\ \/ w[n] = KANA_N
           \/ n >= 2 /\ w[n] = PROLONG /\ w[n - 1] = KANA_N

\* candidate c fails one of the five checks of validateChallenger on history h
ChallengerFails(c, h) ==
    \/ c = << >>
    \/ ~ScriptPure(c)
    \/ c \in SeqSet(h)
    \/ EndsOnTaboo(c)
    \/ RequiredHeadOf(h) # NoneCh /\ SmallToLarge(c[1]) # RequiredHeadOf(h)

\* word w passes the checks of validateOpponent for the player's word c and the
\* used set u that holds c
OpponentWordValid(w, c, u) ==
    /\ w # << >>
    /\ ScriptPure(w)
    /\ SmallToLarge(w[1]) = normalize_last_char(c)
    /\ w \notin u
    /\ ~EndsOnTaboo(w)

\* the opponent's word was accepted: the round continues or ends on the limit
OpponentAccepted == Done /\ Outcome /\ resp.message \in {"next", "limit_after"}

\* the provider was consulted and left no valid word
OpponentFailed == Done /\ Outcome /\ resp.message \in {"ai_no_answer", "ai_broke_rules"}

\* C1: below the turn limit, a candidate that fails any check of validateChallenger
\* resolves as an outcome with accepted=false, gameOver=true, winner=opponent and
\* playerTurnCount = turnsBefore+1, never as a request-level error.
C1_InvalidMoveLoses ==
    Done =>
        LET h == H0
        IN  (TurnsOf(h) < MAX_TURNS /\ ChallengerFails(Cand, h)) =>
                /\ Outcome
                /\ resp.ok = FALSE
                /\ resp.game_over = TRUE
                /\ resp.winner = "ai"
                /\ resp.turn_count = TurnsOf(h) + 1

C1_Witness ==
    /\ Done /\ Outcome /\ resp.message = "repeated" /\ resp.winner = "ai"
    /\ TurnsOf(H0) < MAX_TURNS /\ H0 # << >> /\ ChallengerFails(Cand, H0)

\* C2: an opponent word reported as accepted, whichever source produced it, is
\* non-empty and script-pure after normalization, starts (small mapped to large)
\* with the effective tail of the player's word, is not in the used set that holds
\* the player's word, and does not end on the taboo syllable.
C2_AcceptedOpponentWordValid ==
    OpponentAccepted =>
        OpponentWordValid(to_hiragana(resp.ai_word), Cand, SeqSet(H0) \cup {Cand})

C2_Witness == OpponentAccepted /\ primary_calls = 2 /\ fallback_calls = 0

\* C3 as stated: when the player's move is valid and no valid opponent word is
\* obtained, the outcome is accepted=true, gameOver=true, winner=player, turn count
\* turnsBefore+1, and the used set holds the player's word but not the rejected
\* opponent word.
C3_Original ==
    OpponentFailed =>
        /\ resp.ok = TRUE /\ resp.game_over = TRUE /\ resp.winner = "user"
        /\ resp.turn_count = TurnsOf(H0) + 1
        /\ Cand \in resp.used
        /\ resp.ai_word # None =>
              (resp.ai_word \notin resp.used /\ to_hiragana(resp.ai_word) \notin resp.used)

\* C3 amended: ... and the used set is the normalized history plus the player's
\* word; the rejected opponent word is not added to it.
C3_OpponentFailsPlayerWins ==
    OpponentFailed =>
        LET h == H0
        IN  /\ ~ChallengerFails(Cand, h)
            /\ resp.ok = TRUE /\ resp.game_over = TRUE /\ resp.winner = "user"
            /\ resp.turn_count = TurnsOf(h) + 1
            /\ resp.used = SeqSet(h) \cup {Cand}

C3_Witness ==
    /\ OpponentFailed /\ resp.message = "ai_broke_rules"
    /\ resp.ai_word \notin SeqSet(H0) \cup {Cand}
    /\ to_hiragana(resp.ai_word) \notin SeqSet(H0) \cup {Cand}

\* a word of the fallback table for the required head that is unused and valid
ValidFallbackExists(c, u) ==
    \E f \in FallbackCandidates(normalize_last_char(c), u) :
        OpponentWordValid(to_hiragana(f), c, u)

\* C4: the player is declared winner only when no valid opponent word was
\* available: if the fallback table holds an unused valid word for the required
\* head, the opponent answers with a valid word and the player does not win.
C4_PlayerWinsOnlyWithoutFallback ==
    (Done /\ Outcome /\ resp.winner = "user") =>
        ~ValidFallbackExists(Cand, SeqSet(H0) \cup {Cand})

\* C5: with turnsBefore >= 20 the request resolves at once with gameOver=true and
\* winner=none: the candidate is neither validated nor added to the used set, no
\* word is reported, no provider is consulted, and the turn count is turnsBefore.
C5_LimitBeforeMove ==
    Done =>
        LET h == H0
        IN  TurnsOf(h) >= MAX_TURNS =>
                /\ Outcome
                /\ resp.game_over = TRUE /\ resp.winner = "none"
                /\ resp.user_word = None /\ resp.ai_word = None
                /\ resp.next_head_for_user = NoneCh
                /\ resp.used = SeqSet(h)
                /\ resp.turn_count = TurnsOf(h)
                /\ w_user = None
                /\ primary_calls = 0 /\ fallback_calls = 0 /\ ai_validations = 0

C5_Witness ==
    /\ Done /\ Outcome /\ resp.winner = "none"
    /\ TurnsOf(H0) >= MAX_TURNS /\ ~ChallengerFails(Cand, H0)
    /\ Cand \notin resp.used

\* C6: after a round with a valid opponent word the turn count is
\* (len(history)+3)//2 (turnsBefore being 0, 1, 1, 2, 10 for lengths 0, 1, 2, 3,
\* 19), and the outcome is gameOver=true with winner=none exactly when that count
\* is at least 20, otherwise gameOver=false with no winner.
C6_TurnCountAfterRound ==
    Done =>
        LET n == Len(H0)
        IN  /\ n = 0 => user_turns_before = 0
            /\ n = 1 => user_turns_before = 1
            /\ n = 2 => user_turns_before = 1
            /\ n = 3 => user_turns_before = 2
            /\ n = 19 => user_turns_before = 10
            /\ OpponentAccepted =>
                  /\ resp.turn_count = (n + 3) \div 2
                  /\ resp.game_over = (resp.turn_count >= MAX_TURNS)
                  /\ resp.winner =
                        IF resp.turn_count >= MAX_TURNS THEN "none" ELSE "absent"

C6_Witness ==
    /\ OpponentAccepted /\ resp.turn_count = MAX_TURNS /\ resp.game_over
    /\ Len(H0) = 2 * MAX_TURNS - 2

\* C7: in a game started from an empty history and continued by resubmitting the
\* extended history, the game is over after at most 20 answered player moves and
\* no outcome reports a turn count above 20.
C7_GameEndsWithinLimit ==
    (from_empty /\ Done /\ Outcome) =>
        /\ resp.turn_count <= MAX_TURNS
        /\ moves <= MAX_TURNS
        /\ resp.turn_count = moves
        /\ moves = MAX_TURNS => resp.game_over

C7_Witness ==
    /\ from_empty /\ Done /\ Outcome /\ moves = MAX_TURNS
    /\ resp.message = "limit_after" /\ Len(req_history) = 2 * MAX_TURNS - 2

\* C8 as stated: an empty candidate (or one that normalizes to the empty word) is
\* surfaced as a request-level error, not as a game outcome with a winner.
C8_Original == (Done /\ Cand = << >>) => resp.kind = "error"

\* C8 amended: below the turn limit an empty candidate (or one that normalizes to
\* the empty word) resolves as a game outcome with accepted=false, gameOver=true,
\* winner=opponent and the empty-word message.
C8_EmptyCandidateLoses ==
    (Done /\ Cand = << >> /\ TurnsOf(H0) < MAX_TURNS) =>
        /\ Outcome
        /\ resp.ok = FALSE /\ resp.game_over = TRUE /\ resp.winner = "ai"
        /\ resp.message = "empty"
        /\ resp.user_word = << >>

C8_Witness ==
    /\ Done /\ Outcome /\ resp.winner = "ai"
    /\ Cand = << >> /\ req_user_word # << >> /\ TurnsOf(H0) < MAX_TURNS

\* a word in normalized form
Normalized(w) == to_hiragana(w) = w /\ ScriptPure(w)

\* C9: in every outcome playerWord, opponentWord and every entry of usedWords
\* equal their own normalization and hold only canonical-syllabary characters and
\* the prolongation mark.
C9_WordsNormalized ==
    (Done /\ Outcome) =>
        /\ resp.user_word # None => Normalized(resp.user_word)
        /\ resp.ai_word # None => Normalized(resp.ai_word)
        /\ \A w \in resp.used : Normalized(w)

\* C10: in every ongoing outcome nextRequiredHead is present and equals the
\* effective tail of the normalized opponent word, the head the following request
\* with the extended history enforces on the player.
C10_NextHeadIsEnforcedHead ==
    (Done /\ Outcome /\ ~resp.game_over) =>
        /\ resp.next_head_for_user # NoneCh
        /\ resp.next_head_for_user = normalize_last_char(to_hiragana(resp.ai_word))
        /\ resp.next_head_for_user =
              ExpectedHead(NormalizeHistory(
                  req_history \o << resp.user_word, resp.ai_word >>))

\* ------------------------------------------------------------ the functions alone
\* The functions of shiritori.py applied to every string up to MaxLen characters
\* over Alphabet: blank, "a", hiragana a, small ya, n, the prolongation mark,
\* katakana KO, small KE (U+30F6), VA (U+30F7), and the code point U+3097.
\* req_user_word is the string, head the required head, req_history the history
\* whose normalized entries are the used set, resp the results.
MaxLen == 2
Alphabet == {32, 97, 12354, 12419, 12435, 12540, 12467, 12534, 12535, 12439}
Strings == UNION {[1..k -> Alphabet] : k \in 0..MaxLen}
PureHeads == {NoneCh, 12354, 12371, 12435}
PureHistories ==
    {<< >>, << <<97>> >>, << <<12354>>, <<12354, 12435>> >>, << <<12535>>, <<12419, 12540>> >>}

PureResult(once, twice, tail, user_msg, ai_msg) ==
    [kind |-> "pure", once |-> once, twice |-> twice, tail |-> tail,
     user_msg |-> user_msg, ai_msg |-> ai_msg]

PureInit ==
    /\ req_user_word \in Strings
    /\ head \in PureHeads
    /\ req_history \in PureHistories
    /\ configured = FALSE
    /\ pc = "p_normalize"
    /\ history = << >>
    /\ used = {}
    /\ user_turns_before = 0
    /\ w_user = None
    /\ ai_word = None
    /\ resp = NoResp
    /\ primary_calls = 0
    /\ fallback_calls = 0
    /\ ai_validations = 0
    /\ from_empty = FALSE
    /\ moves = 0
    /\ follow = 0

PureFrame ==
    UNCHANGED << Request, user_turns_before, w_user, head, ai_word, Counters, Game >>

\* to_hiragana applied once and applied to its own result
PNormalize ==
    /\ pc = "p_normalize"
    /\ resp' = PureResult(to_hiragana(req_user_word),
                          to_hiragana(to_hiragana(req_user_word)), NoneCh, "", "")
    /\ pc' = "p_tail"
    /\ UNCHANGED << history, used >>
    /\ PureFrame

\* normalize_last_char applied to the normalized word
PTail ==
    /\ pc = "p_tail"
    /\ resp' = [resp EXCEPT !.tail = normalize_last_char(resp.once)]
    /\ pc' = "p_validate"
    /\ UNCHANGED << history, used >>
    /\ PureFrame

\* the used set built as in ai_move, then both validators applied to the string
PValidate ==
    /\ pc = "p_validate"
    /\ LET h == NormalizeHistory(req_history)
           u == SeqSet(h)
       IN  /\ history' = h
           /\ used' = u
           /\ resp' = [resp EXCEPT
                         !.user_msg = validate_user_move(req_user_word, head, u),
                         !.ai_msg = IF head = NoneCh THEN "no_head"
                                    ELSE validate_ai_move(req_user_word, head, u)]
    /\ pc' = "p_done"
    /\ PureFrame

PureNext ==
    \/ PNormalize
    \/ PTail
    \/ PValidate

PureSpec == PureInit /\ [][PureNext]_vars

Normalized1 == pc \in {"p_tail", "p_validate", "p_done"}
PDone == pc = "p_done"

\* C11: the normalizer is idempotent: normalize(normalize(s)) = normalize(s) for
\* every string s, katakana of the mapped range included.
C11_NormalizeIdempotent == Normalized1 => resp.twice = resp.once

\* C12: every character of normalize's output is a canonical-syllabary character
\* or the prolongation mark; every mapped katakana lands inside the canonical range.
C12_NormalizeOutputCanonical == Normalized1 => ScriptPure(resp.once)

C14_TabooEndingRejected ==
    (PDone /\ EndsOnTaboo(resp.once)) =>
        /\ resp.user_msg # "OK"
        /\ resp.ai_msg # "OK"

C14_Witness ==
    /\ PDone /\ EndsOnTaboo(resp.once) /\ resp.once[Len(resp.once)] = PROLONG
    /\ resp.user_msg = "ends_n" /\ resp.ai_msg = "ends_n"

\* C15 as stated: effectiveTail returns none for the empty word; for any other
\* word it drops one trailing prolongation mark if present and returns the last
\* remaining syllable mapped small to large, never a small-variant syllable.
C15_Original ==
    pc \in {"p_validate", "p_done"} =>
        LET w == resp.once
            t == IF w # << >> /\ w[Len(w)] = PROLONG THEN SubSeq(w, 1, Len(w) - 1) ELSE w
        IN  /\ w = << >> => resp.tail = NoneCh
            /\ w # << >> =>
                  /\ t # << >>
                  /\ resp.tail = SmallToLarge(t[Len(t)])
                  /\ resp.tail \notin DOMAIN _SMALL_TO_LARGE

\* C15 amended: effectiveTail returns none for the empty word and for the word
\* that is the prolongation mark alone; for any other word it drops exactly one
\* trailing prolongation mark and returns the last remaining character mapped
\* through the small-to-large table, never one of the small syllables of that table.
C15_EffectiveTail ==
    pc \in {"p_validate", "p_done"} =>
        LET w == resp.once
            t == IF w # << >> /\ w[Len(w)] = PROLONG THEN SubSeq(w, 1, Len(w) - 1) ELSE w
        IN  /\ t = << >> => resp.tail = NoneCh
            /\ t # << >> =>
                  /\ resp.tail = SmallToLarge(t[Len(t)])
                  /\ resp.tail \notin DOMAIN _SMALL_TO_LARGE

C15_Witness ==
    /\ PDone /\ Len(resp.once) = 2 /\ resp.once[2] = PROLONG
    /\ resp.once[1] \in DOMAIN _SMALL_TO_LARGE
    /\ resp.tail = _SMALL_TO_LARGE[resp.once[1]]

\* ------------------------------------------------------------ the order of calls
InvalidForOpponent(c) == validate_ai_move(c, head, used) # "OK"

\* C16: within one request the primary source is invoked at most twice, the second
\* time only after the first candidate was returned and failed validateOpponent;
\* the fallback table is consulted at most once, only after the primary left no
\* candidate; a candidate is validated once more before it is accepted.
C16_ProviderCallOrder ==
    /\ [](primary_calls <= 2 /\ fallback_calls <= 1)
    /\ [][(primary_calls' = 2 /\ primary_calls # 2) =>
              /\ primary_calls = 1 /\ fallback_calls = 0
              /\ Truthy(ai_word) /\ InvalidForOpponent(ai_word)]_vars
    /\ [][(fallback_calls' = 1 /\ fallback_calls # 1) =>
              /\ primary_calls \in {1, 2}
              /\ ~Truthy(ai_word)]_vars
    /\ [][(pc = "final" /\ resp'.kind = "outcome"
              /\ resp'.message \in {"next", "limit_after"}) =>
              /\ ~InvalidForOpponent(ai_word)
              /\ ai_validations' = ai_validations + 1]_vars

C16_Witness ==
    /\ OpponentAccepted /\ primary_calls = 2 /\ fallback_calls = 1
    /\ ai_validations = 2

\* C17 as stated: the retry is triggered equally when the first primary call
\* yields no candidate and when it yields a rule-invalid word: the primary is
\* asked exactly one more time before the fallback table is used.
C17_Original ==
    pc = "fallback" =>
        \/ primary_calls = 2
        \/ primary_calls = 1 /\ Truthy(ai_word) /\ ~InvalidForOpponent(ai_word)

\* C17 amended: the retry is triggered only when the first primary call yields a
\* non-empty candidate that fails validateOpponent; when it yields no candidate
\* the primary is not asked again and the fallback table is used directly.
C17_RetryOnlyAfterInvalidWord ==
    /\ pc = "check" => primary_calls = 1
    /\ pc = "retry" =>
          primary_calls = 1 /\ Truthy(ai_word) /\ InvalidForOpponent(ai_word)
    /\ pc = "fallback" =>
          /\ primary_calls \in {1, 2} /\ fallback_calls = 0
          /\ primary_calls = 1 => (~Truthy(ai_word) \/ ~InvalidForOpponent(ai_word))

C17_Witness ==
    pc = "fallback" /\ configured /\ primary_calls = 1 /\ ~Truthy(ai_word)

NoDuplicates(h) == Cardinality(SeqSet(h)) = Len(h)

\* C18: in a game played from an empty history by resubmitting the extended
\* history, no word appears twice in the normalized history at any request, nor
\* in the history extended by the accepted player and opponent words.
C18_NoWordTwice ==
    from_empty =>
        /\ pc = "start" => NoDuplicates(H0)
        /\ OpponentAccepted =>
              NoDuplicates(NormalizeHistory(
                  req_history \o << resp.user_word, resp.ai_word >>))

C18_Witness ==
    /\ from_empty /\ OpponentAccepted /\ Len(req_history) = 4
    /\ req_history[2] # to_hiragana(req_history[2])

\* C19: when the player's move fails validation the returned used set is exactly
\* the set of normalized history words, no opponent word or next head is reported,
\* and neither the primary source nor the fallback table is consulted.
C19_RejectedMoveLeavesNothing ==
    Done =>
        LET h == H0
        IN  (TurnsOf(h) < MAX_TURNS /\ ChallengerFails(Cand, h)) =>
                /\ resp.used = SeqSet(h)
                /\ resp.ai_word = None
                /\ resp.next_head_for_user = NoneCh
                /\ primary_calls = 0 /\ fallback_calls = 0 /\ ai_validations = 0
                /\ history = h /\ used = SeqSet(h)

C19_Witness ==
    /\ Done /\ Outcome /\ resp.message = "ends_n"
    /\ Cand \notin resp.used /\ H0 # << >>

\* C20: every candidate accepted by validateChallenger has a defined effective
\* tail: the invalid-input error is never reached after a successful validation
\* and the opponent always receives a required head.
C20_AcceptedWordHasTail ==
    /\ Done => resp.kind # "error"
    /\ pc \in {"generate", "check", "retry", "fallback", "final"} => head # NoneCh
====
